---- MODULE Spec2Model ----
(***************************************************************************)
(* Model of src/app.py: the per-page pipeline                              *)
(*   read_pdf_page -> clean_dataframe -> extract_entries ->                *)
(*   process_entries -> write_csv                                          *)
(* and the multiprocessing fan-out of process_pdf_to_csv.                  *)
(*                                                                         *)
(* Four specifications share the definitions of the pure functions:        *)
(*   Spec      process_pdf_to_csv with its pool of workers and the sink    *)
(*   SpecSeq   one caller invoking write_csv repeatedly on one sink        *)
(*   SpecPipe  the pure pipeline applied to bounded raw tables             *)
(*   SpecPart  the page ranges and tasks process_pdf_to_csv builds         *)
(*                                                                         *)
(* Text is a sequence of one-character strings.  A value of a cell or of   *)
(* a record field is [k, s]: k = "str" with the text s, k = "nan" for      *)
(* pandas' NaN (an absent cell), k = "none" for Python's None.             *)
(***************************************************************************)
EXTENDS Naturals, Sequences, FiniteSets, TLC

VARIABLES
    \* ---- process_pdf_to_csv (Spec) ----
    total_number,   \* argument: last page
    batch_size,     \* argument
    num_workers,    \* argument
    mainpc,         \* position of the caller of process_pdf_to_csv
    chunks,         \* the tasks pool.map made: each a sequence of page ranges
    chunkState,     \* per task: "queued", "running", "ok", "failed"
    \* ---- a worker process / a caller of write_csv ----
    pc,             \* per worker: position in process_pdf_page_range / write_csv
    task,           \* per worker: index of the task it runs (0: none)
    bidx,           \* per worker: index of the page range inside the task
    pidx,           \* per worker: index of the page inside the page range
    df,             \* per worker: local df
    page_entries,   \* per worker: local entries
    final_output,   \* per worker: local final_output / write_csv's data
    file_exists,    \* per worker: write_csv's local flag
    pending,        \* per worker: lines written to the open file, not yet flushed
    \* ---- the sink ----
    sinkExists,     \* the file exists
    sink,           \* its lines, in file order
    \* ---- history (observation only) ----
    outcome,        \* per page: what happened to it
    reads,          \* per page: how often read_pdf_page was called with it
    want,           \* per page: the record lines the page's entries stand for
    initSink,       \* the sink before the first call
    sinkAtCall,     \* SpecSeq: the sink when the current write_csv call began
    calls,          \* SpecSeq: data of the write_csv calls, in call order
    ioFailed,       \* the pages (Spec) or calls (SpecSeq) whose write_csv met an OSError
    \* ---- the pure pipeline (SpecPipe) ----
    ppc, raw, cleaned, ents, recs

vars == <<total_number, batch_size, num_workers, mainpc, chunks, chunkState,
          pc, task, bidx, pidx, df, page_entries, final_output, file_exists, pending,
          sinkExists, sink, outcome, reads, want, initSink, sinkAtCall, calls, ioFailed,
          ppc, raw, cleaned, ents, recs>>

schedVars == <<total_number, batch_size, num_workers, mainpc, chunks, chunkState>>
workerVars == <<pc, task, bidx, pidx, df, page_entries, final_output, file_exists, pending>>
sinkVars == <<sinkExists, sink>>
histVars == <<outcome, reads, want, initSink, sinkAtCall, calls, ioFailed>>
pipeVars == <<ppc, raw, cleaned, ents, recs>>

(***************************************************************************)
(* Bounds                                                                  *)
(***************************************************************************)
MaxWork == 5       \* most pages times workers of a run
MaxBatch == 3      \* largest batch_size
MaxWorkers == 2    \* largest num_workers
MaxRawRows == 8    \* longest raw table of SpecPipe
MaxCalls == 3      \* most write_csv calls of SpecSeq
MaxData == 2       \* most records in one write_csv call of SpecSeq
MaxLast == 12      \* largest total_number of SpecPart
MaxSize == 4       \* largest batch_size of SpecPart

(***************************************************************************)
(* Values                                                                  *)
(***************************************************************************)
None == [k |-> "none", s |-> <<>>]
NaN == [k |-> "nan", s |-> <<>>]
Str(s) == [k |-> "str", s |-> s]

Digits == {"0", "1", "2", "3", "4", "5", "6", "7", "8", "9"}
Whitespace == {" "}

\* pd.notna(v)
notna(v) == v.k # "nan"

\* str(v) for a cell: NaN prints as "nan"
str(v) == IF v.k = "nan" THEN <<"n", "a", "n">>
          ELSE IF v.k = "none" THEN <<"N", "o", "n", "e">>
          ELSE v.s

\* ch in s
Contains(s, ch) == \E i \in 1..Len(s) : s[i] = ch

RECURSIVE FilterDigits(_)
FilterDigits(s) ==
    IF s = <<>> THEN <<>>
    ELSE IF Head(s) \in Digits THEN <<Head(s)>> \o FilterDigits(Tail(s))
    ELSE FilterDigits(Tail(s))

\* digit_only(str_digit): iterating a float (NaN) or None raises TypeError
digit_only(v) ==
    IF v.k = "str" THEN [st |-> "ok", v |-> Str(FilterDigits(v.s))]
    ELSE [st |-> "raise", v |-> None]

RECURSIVE lstrip(_)
lstrip(s) == IF s # <<>> /\ Head(s) \in Whitespace THEN lstrip(Tail(s)) ELSE s

RECURSIVE rstrip(_)
rstrip(s) ==
    IF s # <<>> /\ s[Len(s)] \in Whitespace THEN rstrip(SubSeq(s, 1, Len(s) - 1))
    ELSE s

\* s.strip()
strip(s) == rstrip(lstrip(s))

\* " ".join(parts)
RECURSIVE join(_)
join(parts) ==
    IF parts = <<>> THEN <<>>
    ELSE IF Len(parts) = 1 THEN parts[1]
    ELSE parts[1] \o <<" ">> \o join(Tail(parts))

(***************************************************************************)
(* Rows and tables.  A row is the 5-tuple <<Date, Debit, Credit, Balance,  *)
(* Transaction Detail>> (python index i is TLA+ index i + 1).              *)
(***************************************************************************)
Row(date, credit, detail) == <<date, NaN, credit, NaN, detail>>

Raise == [st |-> "raise", v |-> <<>>]
Ok(v) == [st |-> "ok", v |-> v]

\* clean_dataframe without the drop(0) of line 31
clean_dataframe_iloc_only(t) == Ok(SubSeq(t, 4, Len(t)))

\* clean_dataframe(df): df.iloc[3:], the column names, then drop(0), which
\* raises KeyError when no row with label 0 is left
clean_dataframe(t) ==
    LET df_cleaned == SubSeq(t, 4, Len(t))
    IN  IF df_cleaned = <<>> THEN Raise ELSE Ok(Tail(df_cleaned))

\* the test of line 43 without the '/' part
is_date_row_present(row) == notna(row[1])

\* pd.notna(row['Date']) and '/' in str(row['Date'])
is_date_row(row) == notna(row[1]) /\ Contains(str(row[1]), "/")

\* the for loop of extract_entries over the rows left, with its two locals
RECURSIVE extract_loop(_, _, _)
extract_loop(rows, entries, current_entry) ==
    IF rows = <<>> THEN [entries |-> entries, current_entry |-> current_entry]
    ELSE IF is_date_row(Head(rows))
         THEN extract_loop(Tail(rows),
                           IF current_entry # <<>> THEN Append(entries, current_entry)
                                                   ELSE entries,
                           <<Head(rows)>>)
         ELSE extract_loop(Tail(rows), entries,
                           IF current_entry # <<>> THEN Append(current_entry, Head(rows))
                                                   ELSE current_entry)

\* extract_entries without the flush after the loop
extract_entries_noflush(t) == extract_loop(t, <<>>, <<>>).entries

\* extract_entries(df)
extract_entries(t) ==
    LET l == extract_loop(t, <<>>, <<>>)
    IN  IF l.current_entry # <<>> THEN Append(l.entries, l.current_entry)
        ELSE l.entries

\* the detail cells present in the first three rows only
details_first_three(entry) ==
    LET cell(k) == IF k <= Len(entry) /\ notna(entry[k][5]) THEN <<entry[k][5].s>>
                   ELSE <<>>
    IN  cell(1) \o cell(2) \o cell(3)

\* row[4] for row in entry if pd.notna(row[4])
RECURSIVE details(_)
details(entry) ==
    IF entry = <<>> THEN <<>>
    ELSE IF notna(Head(entry)[5]) THEN <<Head(entry)[5].s>> \o details(Tail(entry))
    ELSE details(Tail(entry))

\* the loop body with Amount taken from the first row
process_entry_first_row(entry) ==
    LET tid == IF Len(entry) > 2 THEN digit_only(entry[3][1]) ELSE Ok(None)
    IN  IF tid.st = "raise" THEN [st |-> "raise", v |-> <<>>]
        ELSE Ok(<<[Date |-> IF entry[1] # <<>> THEN entry[1][1] ELSE None,
                   TransactionId |-> tid.v,
                   Amount |-> IF Len(entry) > 1 THEN entry[1][3] ELSE None,
                   Content |-> Str(strip(join(details(entry))))]>>)

\* the body of process_entries' loop for one non-empty entry
process_entry(entry) ==
    LET tid == IF Len(entry) > 2 THEN digit_only(entry[3][1]) ELSE Ok(None)
    IN  IF tid.st = "raise" THEN [st |-> "raise", v |-> <<>>]
        ELSE Ok(<<[Date |-> IF entry[1] # <<>> THEN entry[1][1] ELSE None,
                   TransactionId |-> tid.v,
                   Amount |-> IF Len(entry) > 1 THEN entry[2][3] ELSE None,
                   Content |-> Str(strip(join(details(entry))))]>>)

\* process_entries(entries): the records, or the exception that leaves it
RECURSIVE process_entries(_)
process_entries(entries) ==
    IF entries = <<>> THEN Ok(<<>>)
    ELSE IF Head(entries) = <<>> THEN process_entries(Tail(entries))
    ELSE LET r == process_entry(Head(entries))
             rest == process_entries(Tail(entries))
         IN  IF r.st = "raise" \/ rest.st = "raise" THEN Raise
             ELSE Ok(r.v \o rest.v)

(***************************************************************************)
(* CSV lines.  A line is the tuple of its four field texts.                *)
(***************************************************************************)
\* writer.writeheader(): the field names themselves
HeaderLine == <<<<"D", "a", "t", "e">>, <<"T", "r", "a", "n", "s", "a", "c", "t", "i", "o", "n", "I", "d">>,
                <<"A", "m", "o", "u", "n", "t">>, <<"C", "o", "n", "t", "e", "n", "t">>>>

\* csv's rendering of one field: None is the empty field, anything else str()
CsvField(v) == IF v.k = "none" THEN <<>> ELSE str(v)

\* DictWriter's line for one record
CsvLine(rec) == <<CsvField(rec.Date), CsvField(rec.TransactionId),
                  CsvField(rec.Amount), CsvField(rec.Content)>>

\* writer.writerows(data)
RECURSIVE CsvLines(_)
CsvLines(data) ==
    IF data = <<>> THEN <<>> ELSE <<CsvLine(Head(data))>> \o CsvLines(Tail(data))

(***************************************************************************)
(* Bounded inputs                                                          *)
(***************************************************************************)
Date1 == Str(<<"0", "9", "/", "0", "1">>)
Date2 == Str(<<"1", "/", "2">>)

\* rows a table body is drawn from
DataRows ==
    { Row(Date1, NaN, Str(<<"D", "o">>)),
      Row(NaN, Str(<<"5", "0">>), NaN),
      Row(Str(<<"A", "9", "9", "Z">>), NaN, Str(<<" ", "x">>)),
      Row(NaN, NaN, Str(<<"y", " ">>)),
      Row(Date2, Str(<<"7">>), NaN),
      Row(Str(<<"-">>), NaN, Str(<<" ">>)) }

\* rows the banner of a raw table is drawn from
HeadRows == { Row(Str(<<"N", "/", "D">>), NaN, NaN), Row(NaN, NaN, Str(<<"H">>)) }

\* the rows the n-th row of a raw table is drawn from: clean_dataframe drops
\* the first 3 rows and one more
RowsAt(n) == IF n <= 4 THEN HeadRows ELSE DataRows

(***************************************************************************)
(* process_pdf_to_csv: the page ranges and pool.map's tasks                *)
(***************************************************************************)
Min(a, b) == IF a < b THEN a ELSE b

\* list(range(start, stop))
\* the pages of a range in descending order
range_descending(start, stop) ==
    IF start >= stop THEN <<>> ELSE [k \in 1..(stop - start) |-> stop - k]

range(start, stop) ==
    IF start >= stop THEN <<>> ELSE [k \in 1..(stop - start) |-> start + (k - 1)]

\* [range(i, min(i + batch_size, total_number+1))
\*  for i in range(2, total_number+1, batch_size)], from i on
RECURSIVE page_ranges_from(_, _, _)
page_ranges_from(i, total, bs) ==
    IF i >= total + 1 THEN <<>>
    ELSE <<range(i, Min(i + bs, total + 1))>> \o page_ranges_from(i + bs, total, bs)

\* the page ranges with total_number itself as the exclusive end
page_ranges_exclusive(total, bs) ==
    IF total = 0 THEN <<>> ELSE page_ranges_from(2, total - 1, bs)

page_ranges(total, bs) == page_ranges_from(2, total, bs)

\* Pool._map_async's default chunksize: divmod(len(iterable), len(pool) * 4),
\* rounded up
chunksize(n, nworkers) ==
    IF n = 0 THEN 0
    ELSE IF n % (nworkers * 4) # 0 THEN (n \div (nworkers * 4)) + 1
    ELSE n \div (nworkers * 4)

\* Pool._get_tasks: consecutive slices of size items
RECURSIVE get_tasks(_, _)
get_tasks(items, size) ==
    IF items = <<>> THEN <<>>
    ELSE <<SubSeq(items, 1, Min(size, Len(items)))>>
         \o get_tasks(SubSeq(items, Min(size, Len(items)) + 1, Len(items)), size)

Workers == 1..num_workers
Pages == 2..total_number

\* the page a worker is at
CurRange(w) == chunks[task[w]][bidx[w]]
CurPage(w) == CurRange(w)[pidx[w]]

(***************************************************************************)
(* The tables tabula may return for a page of the model: the page number   *)
(* is part of every date, so records of different pages differ.            *)
(***************************************************************************)
PageChar(p) == <<"1", "2", "3", "4", "5", "6", "7", "8", "9">>[p]
PageDate(p, d) == Str(<<PageChar(p), "/", d>>)
Banner == <<Row(NaN, NaN, Str(<<"H">>)), Row(NaN, NaN, NaN),
            Row(Str(<<"N", "/", "D">>), NaN, NaN), Row(NaN, NaN, NaN)>>

PageTables(p) ==
    { \* fewer than 4 rows
      SubSeq(Banner, 1, 3),
      \* an entry of three rows and an entry of one row
      Banner \o <<Row(PageDate(p, "1"), NaN, Str(<<"D", "o">>)),
                  Row(NaN, Str(<<"5", "0">>), NaN),
                  Row(Str(<<"A", "9", "9", "Z">>), NaN, NaN),
                  Row(PageDate(p, "2"), NaN, Str(<<"b">>))>>,
      \* an entry of three rows, the third without a date cell
      Banner \o <<Row(PageDate(p, "1"), NaN, Str(<<"D", "o">>)),
                  Row(NaN, Str(<<"5", "0">>), NaN),
                  Row(NaN, NaN, Str(<<"x">>))>> }

\* the number of entries of a raw table: one record each is due
EntriesOf(t) ==
    LET c == clean_dataframe(t)
    IN  IF c.st = "raise" THEN 0 ELSE Len(extract_entries(c.v))

(***************************************************************************)
(* write_csv(data, csv_file_path, page_number), run by worker w with       *)
(* data = final_output[w].  The file is shared; the lines written through  *)
(* the open file object sit in its buffer (pending) until a write() of     *)
(* whole lines appends them to the file (O_APPEND), at the latest on       *)
(* close.                                                                  *)
(***************************************************************************)
\* what identifies the running call in ioFailed
CallId(w) == IF task[w] = 0 THEN Len(calls) ELSE CurPage(w)

\* the header written by every call
need_header_always(exists) == TRUE

\* line 103: if not file_exists
need_header(exists) == ~exists

\* the content of the file after open(..., mode='w')
open_truncate(lines) == <<>>

\* line 99: the content of the file after open(..., mode='a')
open_append(lines) == lines

\* lines 91-96: open for reading only to learn whether the file exists
WriteCheck(w) ==
    /\ pc[w] = "w_check"
    /\ file_exists' = [file_exists EXCEPT ![w] = sinkExists]
    /\ pc' = [pc EXCEPT ![w] = "w_open"]
    /\ UNCHANGED <<task, bidx, pidx, df, page_entries, final_output, pending>>
    /\ UNCHANGED <<schedVars, sinkVars, histVars, pipeVars>>

\* lines 99-107: open for append (creating the file), write the header if
\* the file was not there, write the rows
WriteOpen(w) ==
    /\ pc[w] = "w_open"
    /\ sinkExists' = TRUE
    /\ sink' = open_append(sink)
    /\ pending' = [pending EXCEPT ![w] =
           (IF need_header(file_exists[w]) THEN <<HeaderLine>> ELSE <<>>)
           \o CsvLines(final_output[w])]
    /\ pc' = [pc EXCEPT ![w] = "w_flush"]
    /\ UNCHANGED <<task, bidx, pidx, df, page_entries, final_output, file_exists>>
    /\ UNCHANGED <<schedVars, histVars, pipeVars>>

\* a full buffer: some of the pending lines are appended before the close
WriteFlush(w) ==
    /\ pc[w] = "w_flush"
    /\ Len(pending[w]) > 1
    /\ \E n \in 1..(Len(pending[w]) - 1) :
          /\ sink' = sink \o SubSeq(pending[w], 1, n)
          /\ pending' = [pending EXCEPT ![w] = SubSeq(pending[w], n + 1, Len(pending[w]))]
    /\ UNCHANGED <<pc, task, bidx, pidx, df, page_entries, final_output, file_exists>>
    /\ UNCHANGED <<schedVars, sinkExists, histVars, pipeVars>>

\* leaving the with block: close appends what is pending; line 109
WriteClose(w) ==
    /\ pc[w] = "w_flush"
    /\ sink' = sink \o pending[w]
    /\ pending' = [pending EXCEPT ![w] = <<>>]
    /\ pc' = [pc EXCEPT ![w] = "w_ret"]
    /\ UNCHANGED <<task, bidx, pidx, df, page_entries, final_output, file_exists>>
    /\ UNCHANGED <<schedVars, sinkExists, histVars, pipeVars>>

\* an open or a write raised and no except clause catches it: the exception
\* leaves write_csv and process_pdf_page_range, the task fails
WriteFail_propagates(w) ==
    /\ pc[w] \in {"w_check", "w_open", "w_flush"}
    /\ task[w] # 0
    /\ ioFailed' = ioFailed \cup {CallId(w)}
    /\ chunkState' = [chunkState EXCEPT ![task[w]] = "failed"]
    /\ outcome' = [outcome EXCEPT ![CurPage(w)] = "write_failed"]
    /\ pending' = [pending EXCEPT ![w] = <<>>]
    /\ pc' = [pc EXCEPT ![w] = "idle"]
    /\ task' = [task EXCEPT ![w] = 0]
    /\ UNCHANGED <<bidx, pidx, df, page_entries, final_output, file_exists>>
    /\ UNCHANGED <<total_number, batch_size, num_workers, mainpc, chunks>>
    /\ UNCHANGED <<sinkVars, pipeVars>>
    /\ UNCHANGED <<reads, want, initSink, sinkAtCall, calls>>

\* lines 111-112: an open or a write raised; the exception is caught and
\* printed, what was pending is lost
WriteFail(w) ==
    /\ pc[w] \in {"w_check", "w_open", "w_flush"}
    /\ ioFailed' = ioFailed \cup {CallId(w)}
    /\ pending' = [pending EXCEPT ![w] = <<>>]
    /\ pc' = [pc EXCEPT ![w] = "w_ret"]
    /\ UNCHANGED <<task, bidx, pidx, df, page_entries, final_output, file_exists>>
    /\ UNCHANGED <<schedVars, sinkVars, pipeVars>>
    /\ UNCHANGED <<outcome, reads, want, initSink, sinkAtCall, calls>>

(***************************************************************************)
(* process_pdf_page_range(pdf_path, csv_file_path, page_range), run by a   *)
(* pool worker for every page range of its task (mapstar)                  *)
(***************************************************************************)
\* a task taken without being removed from the queue
TakeTask_leaves_queued(w) ==
    /\ mainpc = "map"
    /\ pc[w] = "idle"
    /\ \E c \in 1..Len(chunks) :
          /\ chunkState[c] = "queued"
          /\ \A d \in 1..(c - 1) : chunkState[d] # "queued"
          /\ task' = [task EXCEPT ![w] = c]
    /\ bidx' = [bidx EXCEPT ![w] = 1]
    /\ pidx' = [pidx EXCEPT ![w] = 1]
    /\ pc' = [pc EXCEPT ![w] = "for"]
    /\ UNCHANGED <<df, page_entries, final_output, file_exists, pending>>
    /\ UNCHANGED <<schedVars, sinkVars, histVars, pipeVars>>

\* the worker takes the next task from the pool's task queue
TakeTask(w) ==
    /\ mainpc = "map"
    /\ pc[w] = "idle"
    /\ \E c \in 1..Len(chunks) :
          /\ chunkState[c] = "queued"
          /\ \A d \in 1..(c - 1) : chunkState[d] # "queued"
          /\ chunkState' = [chunkState EXCEPT ![c] = "running"]
          /\ task' = [task EXCEPT ![w] = c]
    /\ bidx' = [bidx EXCEPT ![w] = 1]
    /\ pidx' = [pidx EXCEPT ![w] = 1]
    /\ pc' = [pc EXCEPT ![w] = "for"]
    /\ UNCHANGED <<df, page_entries, final_output, file_exists, pending>>
    /\ UNCHANGED <<total_number, batch_size, num_workers, mainpc, chunks>>
    /\ UNCHANGED <<sinkVars, histVars, pipeVars>>

\* line 135-136: read_pdf_page returns None (tabula raised, or no table)
ReadPageNone(w) ==
    /\ pc[w] = "for"
    /\ pidx[w] <= Len(CurRange(w))
    /\ reads' = [reads EXCEPT ![CurPage(w)] = @ + 1]
    /\ outcome' = [outcome EXCEPT ![CurPage(w)] = "extract_failed"]
    /\ pidx' = [pidx EXCEPT ![w] = @ + 1]
    /\ UNCHANGED <<pc, task, bidx, df, page_entries, final_output, file_exists, pending>>
    /\ UNCHANGED <<schedVars, sinkVars, pipeVars>>
    /\ UNCHANGED <<want, initSink, sinkAtCall, calls, ioFailed>>

\* line 135-136: read_pdf_page returns a table
ReadPage(w) ==
    /\ pc[w] = "for"
    /\ pidx[w] <= Len(CurRange(w))
    /\ \E t \in PageTables(CurPage(w)) :
          /\ df' = [df EXCEPT ![w] = t]
          /\ want' = [want EXCEPT ![CurPage(w)] = EntriesOf(t)]
    /\ reads' = [reads EXCEPT ![CurPage(w)] = @ + 1]
    /\ outcome' = [outcome EXCEPT ![CurPage(w)] = "read"]
    /\ pc' = [pc EXCEPT ![w] = "clean"]
    /\ UNCHANGED <<task, bidx, pidx, page_entries, final_output, file_exists, pending>>
    /\ UNCHANGED <<schedVars, sinkVars, pipeVars>>
    /\ UNCHANGED <<initSink, sinkAtCall, calls, ioFailed>>

\* an exception leaves process_pdf_page_range: mapstar's list(map(...)) ends,
\* the worker reports the task as failed and is free for the next task
TaskRaises(w, what) ==
    /\ chunkState' = [chunkState EXCEPT ![task[w]] = "failed"]
    /\ outcome' = [outcome EXCEPT ![CurPage(w)] = what]
    /\ pc' = [pc EXCEPT ![w] = "idle"]
    /\ task' = [task EXCEPT ![w] = 0]
    /\ UNCHANGED <<bidx, pidx, df, page_entries, final_output, file_exists, pending>>
    /\ UNCHANGED <<total_number, batch_size, num_workers, mainpc, chunks>>
    /\ UNCHANGED <<sinkVars, pipeVars>>
    /\ UNCHANGED <<reads, want, initSink, sinkAtCall, calls, ioFailed>>

\* lines 137-139: clean_dataframe, extract_entries, process_entries on the
\* worker's locals; line 140 then calls write_csv
Pipeline(w) ==
    /\ pc[w] = "clean"
    /\ LET c == clean_dataframe(df[w])
           e == extract_entries(c.v)
           r == process_entries(e)
       IN  IF c.st = "raise" THEN TaskRaises(w, "clean_failed")
           ELSE IF r.st = "raise" THEN TaskRaises(w, "process_failed")
           ELSE /\ df' = [df EXCEPT ![w] = c.v]
                /\ page_entries' = [page_entries EXCEPT ![w] = e]
                /\ final_output' = [final_output EXCEPT ![w] = r.v]
                /\ pc' = [pc EXCEPT ![w] = "w_check"]
                /\ UNCHANGED <<task, bidx, pidx, file_exists, pending>>
                /\ UNCHANGED <<schedVars, sinkVars, histVars, pipeVars>>

\* write_csv returns; line 134: the next page of the range
WriteReturn(w) ==
    /\ pc[w] = "w_ret"
    /\ task[w] # 0
    /\ outcome' = [outcome EXCEPT ![CurPage(w)] =
                       IF CurPage(w) \in ioFailed THEN "write_failed" ELSE "written"]
    /\ pidx' = [pidx EXCEPT ![w] = @ + 1]
    /\ pc' = [pc EXCEPT ![w] = "for"]
    /\ UNCHANGED <<task, bidx, df, page_entries, final_output, file_exists, pending>>
    /\ UNCHANGED <<schedVars, sinkVars, pipeVars>>
    /\ UNCHANGED <<reads, want, initSink, sinkAtCall, calls, ioFailed>>

\* line 134 with the range exhausted: process_pdf_page_range returns, and
\* mapstar goes on to the next page range of the task
NextRange(w) ==
    /\ pc[w] = "for"
    /\ pidx[w] > Len(CurRange(w))
    /\ bidx[w] < Len(chunks[task[w]])
    /\ bidx' = [bidx EXCEPT ![w] = @ + 1]
    /\ pidx' = [pidx EXCEPT ![w] = 1]
    /\ UNCHANGED <<pc, task, df, page_entries, final_output, file_exists, pending>>
    /\ UNCHANGED <<schedVars, sinkVars, histVars, pipeVars>>

\* the last page range of the task returned: the task's result is reported
TaskDone(w) ==
    /\ pc[w] = "for"
    /\ pidx[w] > Len(CurRange(w))
    /\ bidx[w] = Len(chunks[task[w]])
    /\ chunkState' = [chunkState EXCEPT ![task[w]] = "ok"]
    /\ pc' = [pc EXCEPT ![w] = "idle"]
    /\ task' = [task EXCEPT ![w] = 0]
    /\ UNCHANGED <<bidx, pidx, df, page_entries, final_output, file_exists, pending>>
    /\ UNCHANGED <<total_number, batch_size, num_workers, mainpc, chunks>>
    /\ UNCHANGED <<sinkVars, histVars, pipeVars>>

(***************************************************************************)
(* process_pdf_to_csv(pdf_path, csv_file_path, total_number, batch_size,   *)
(* num_workers)                                                            *)
(***************************************************************************)
\* the result ready as soon as one task failed
map_ready_on_first_failure(states) ==
    \/ \E c \in 1..Len(states) : states[c] = "failed"
    \/ \A c \in 1..Len(states) : states[c] = "ok"

\* MapResult._set: the result is ready once all tasks are done
map_ready(states) == \A c \in 1..Len(states) : states[c] \in {"ok", "failed"}

\* lines 147-153: the page ranges, the pool, pool.map puts the tasks
Dispatch ==
    /\ mainpc = "start"
    /\ LET ranges == page_ranges(total_number, batch_size)
           tasks == get_tasks(ranges, chunksize(Len(ranges), num_workers))
       IN  /\ chunks' = tasks
           /\ chunkState' = [c \in 1..Len(tasks) |-> "queued"]
    /\ mainpc' = "map"
    /\ UNCHANGED <<total_number, batch_size, num_workers>>
    /\ UNCHANGED <<workerVars, sinkVars, histVars, pipeVars>>

\* lines 153-155: pool.map returns, the with block terminates the pool,
\* the completion message is printed
MapReturns ==
    /\ mainpc = "map"
    /\ map_ready(chunkState)
    /\ \A c \in 1..Len(chunkState) : chunkState[c] = "ok"
    /\ mainpc' = "done"
    /\ pc' = [w \in Workers |-> "terminated"]
    /\ UNCHANGED <<total_number, batch_size, num_workers, chunks, chunkState>>
    /\ UNCHANGED <<task, bidx, pidx, df, page_entries, final_output, file_exists, pending>>
    /\ UNCHANGED <<sinkVars, histVars, pipeVars>>

\* line 153: pool.map re-raises the exception of a failed task; the with
\* block terminates the pool and the exception leaves process_pdf_to_csv
MapRaises ==
    /\ mainpc = "map"
    /\ map_ready(chunkState)
    /\ \E c \in 1..Len(chunkState) : chunkState[c] = "failed"
    /\ mainpc' = "raised"
    /\ pc' = [w \in Workers |-> "terminated"]
    /\ UNCHANGED <<total_number, batch_size, num_workers, chunks, chunkState>>
    /\ UNCHANGED <<task, bidx, pidx, df, page_entries, final_output, file_exists, pending>>
    /\ UNCHANGED <<sinkVars, histVars, pipeVars>>

PipeIdle ==
    /\ ppc = "off" /\ raw = <<>> /\ cleaned = Ok(<<>>) /\ ents = <<>> /\ recs = Ok(<<>>)

Init ==
    /\ num_workers \in 1..MaxWorkers
    /\ total_number \in 1..(1 + (MaxWork \div num_workers))
    /\ batch_size \in 1..MaxBatch
    /\ mainpc = "start"
    /\ chunks = <<>>
    /\ chunkState = <<>>
    /\ pc = [w \in Workers |-> "idle"]
    /\ task = [w \in Workers |-> 0]
    /\ bidx = [w \in Workers |-> 0]
    /\ pidx = [w \in Workers |-> 0]
    /\ df = [w \in Workers |-> <<>>]
    /\ page_entries = [w \in Workers |-> <<>>]
    /\ final_output = [w \in Workers |-> <<>>]
    /\ file_exists = [w \in Workers |-> FALSE]
    /\ pending = [w \in Workers |-> <<>>]
    /\ sinkExists \in BOOLEAN
    /\ sink = <<>>
    /\ outcome = [p \in Pages |-> "none"]
    /\ reads = [p \in Pages |-> 0]
    /\ want = [p \in Pages |-> 0]
    /\ initSink = [exists |-> sinkExists, lines |-> sink]
    /\ sinkAtCall = initSink
    /\ calls = <<>>
    /\ ioFailed = {}
    /\ PipeIdle

Next ==
    \/ Dispatch
    \/ MapReturns
    \/ MapRaises
    \/ \E w \in Workers : TakeTask(w)
    \/ \E w \in Workers : ReadPageNone(w)
    \/ \E w \in Workers : ReadPage(w)
    \/ \E w \in Workers : Pipeline(w)
    \/ \E w \in Workers : WriteCheck(w)
    \/ \E w \in Workers : WriteOpen(w)
    \/ \E w \in Workers : WriteFlush(w)
    \/ \E w \in Workers : WriteClose(w)
    \/ \E w \in Workers : WriteFail(w)
    \/ \E w \in Workers : WriteReturn(w)
    \/ \E w \in Workers : NextRange(w)
    \/ \E w \in Workers : TaskDone(w)

Spec == Init /\ [][Next]_vars

(***************************************************************************)
(* SpecSeq: one caller invokes write_csv again and again on one sink       *)
(***************************************************************************)
\* the i-th record of the c-th call: all records of a run differ
SeqRecord(c, i) ==
    [Date |-> Str(<<PageChar(c), "/", PageChar(i)>>),
     TransactionId |-> IF i = 1 THEN Str(<<"9", "9">>) ELSE None,
     Amount |-> IF i = 1 THEN Str(<<"5", "0">>) ELSE NaN,
     Content |-> Str(<<"D", "o">>)]

SeqData(c, n) == [i \in 1..n |-> SeqRecord(c, i)]

OldLine == <<<<"0", "/", "0">>, <<>>, <<"1">>, <<"o", "l", "d">>>>

\* the sink before the first call: absent, empty, with a header and a
\* record, with a record only
InitSinks ==
    { [exists |-> FALSE, lines |-> <<>>],
      [exists |-> TRUE, lines |-> <<>>],
      [exists |-> TRUE, lines |-> <<HeaderLine, OldLine>>],
      [exists |-> TRUE, lines |-> <<OldLine>>] }

SchedOff ==
    /\ total_number = 1 /\ batch_size = 1 /\ num_workers = 1
    /\ mainpc = "off" /\ chunks = <<>> /\ chunkState = <<>>

WorkersOff ==
    /\ pc = [w \in {1} |-> "idle"]
    /\ task = [w \in {1} |-> 0]
    /\ bidx = [w \in {1} |-> 0]
    /\ pidx = [w \in {1} |-> 0]
    /\ df = [w \in {1} |-> <<>>]
    /\ page_entries = [w \in {1} |-> <<>>]
    /\ final_output = [w \in {1} |-> <<>>]
    /\ file_exists = [w \in {1} |-> FALSE]
    /\ pending = [w \in {1} |-> <<>>]

PagesOff == outcome = <<>> /\ reads = <<>> /\ want = <<>>

SeqInit ==
    /\ SchedOff
    /\ WorkersOff
    /\ PagesOff
    /\ initSink \in InitSinks
    /\ sinkExists = initSink.exists
    /\ sink = initSink.lines
    /\ sinkAtCall = initSink
    /\ calls = <<>>
    /\ ioFailed = {}
    /\ PipeIdle

\* the caller calls write_csv(data, csv_file_path, page_number)
SeqCall ==
    /\ pc[1] \in {"idle", "w_ret"}
    /\ Len(calls) < MaxCalls
    /\ \E n \in 0..MaxData :
          /\ final_output' = [final_output EXCEPT ![1] = SeqData(Len(calls) + 1, n)]
          /\ calls' = Append(calls, SeqData(Len(calls) + 1, n))
    /\ sinkAtCall' = [exists |-> sinkExists, lines |-> sink]
    /\ pc' = [pc EXCEPT ![1] = "w_check"]
    /\ UNCHANGED <<task, bidx, pidx, df, page_entries, file_exists, pending>>
    /\ UNCHANGED <<schedVars, sinkVars, pipeVars>>
    /\ UNCHANGED <<outcome, reads, want, initSink, ioFailed>>

SeqNext ==
    \/ SeqCall
    \/ WriteCheck(1)
    \/ WriteOpen(1)
    \/ WriteFlush(1)
    \/ WriteClose(1)
    \/ WriteFail(1)

SpecSeq == SeqInit /\ [][SeqNext]_vars

(***************************************************************************)
(* SpecPipe: clean_dataframe, extract_entries and process_entries applied  *)
(* in turn to a raw table                                                  *)
(***************************************************************************)
PipeInit ==
    /\ SchedOff
    /\ WorkersOff
    /\ PagesOff
    /\ sinkExists = FALSE
    /\ sink = <<>>
    /\ initSink = [exists |-> FALSE, lines |-> <<>>]
    /\ sinkAtCall = initSink
    /\ calls = <<>>
    /\ ioFailed = {}
    /\ ppc = "raw"
    /\ raw = <<>>
    /\ cleaned = Ok(<<>>)
    /\ ents = <<>>
    /\ recs = Ok(<<>>)

\* the raw table under test grows by one row
PipeRow ==
    /\ ppc = "raw"
    /\ Len(raw) < MaxRawRows
    /\ \E r \in RowsAt(Len(raw) + 1) : raw' = Append(raw, r)
    /\ UNCHANGED <<ppc, cleaned, ents, recs>>
    /\ UNCHANGED <<schedVars, workerVars, sinkVars, histVars>>

PipeClean ==
    /\ ppc = "raw"
    /\ cleaned' = clean_dataframe(raw)
    /\ ppc' = IF cleaned'.st = "raise" THEN "clean_raised" ELSE "cleaned"
    /\ UNCHANGED <<raw, ents, recs>>
    /\ UNCHANGED <<schedVars, workerVars, sinkVars, histVars>>

PipeExtract ==
    /\ ppc = "cleaned"
    /\ ents' = extract_entries(cleaned.v)
    /\ ppc' = "extracted"
    /\ UNCHANGED <<raw, cleaned, recs>>
    /\ UNCHANGED <<schedVars, workerVars, sinkVars, histVars>>

PipeProcess ==
    /\ ppc = "extracted"
    /\ recs' = process_entries(ents)
    /\ ppc' = IF recs'.st = "raise" THEN "process_raised" ELSE "processed"
    /\ UNCHANGED <<raw, cleaned, ents>>
    /\ UNCHANGED <<schedVars, workerVars, sinkVars, histVars>>

PipeNext == PipeRow \/ PipeClean \/ PipeExtract \/ PipeProcess

SpecPipe == PipeInit /\ [][PipeNext]_vars

(***************************************************************************)
(* SpecPart: the page ranges process_pdf_to_csv builds and hands to        *)
(* pool.map, for small arguments and for the range [2, 2029] in batches    *)
(* of 100                                                                  *)
(***************************************************************************)
PartInit ==
    /\ num_workers \in 1..MaxWorkers
    /\ total_number \in (1..MaxLast) \cup {2029}
    /\ batch_size \in (1..MaxSize) \cup {100}
    /\ total_number = 2029 => batch_size = 100
    /\ mainpc = "start"
    /\ chunks = <<>>
    /\ chunkState = <<>>
    /\ pc = [w \in Workers |-> "idle"]
    /\ task = [w \in Workers |-> 0]
    /\ bidx = [w \in Workers |-> 0]
    /\ pidx = [w \in Workers |-> 0]
    /\ df = [w \in Workers |-> <<>>]
    /\ page_entries = [w \in Workers |-> <<>>]
    /\ final_output = [w \in Workers |-> <<>>]
    /\ file_exists = [w \in Workers |-> FALSE]
    /\ pending = [w \in Workers |-> <<>>]
    /\ sinkExists = FALSE
    /\ sink = <<>>
    /\ PagesOff
    /\ initSink = [exists |-> FALSE, lines |-> <<>>]
    /\ sinkAtCall = initSink
    /\ calls = <<>>
    /\ ioFailed = {}
    /\ PipeIdle

PartNext == Dispatch

SpecPart == PartInit /\ [][PartNext]_vars

(***************************************************************************)
(* Observations used by the properties                                     *)
(***************************************************************************)
HeaderCount(lines) == Cardinality({i \in 1..Len(lines) : lines[i] = HeaderLine})
RecordCount(lines) == Cardinality({i \in 1..Len(lines) : lines[i] # HeaderLine})
NoLineTwice(lines) ==
    \A i, j \in 1..Len(lines) :
        (i # j /\ lines[i] # HeaderLine) => lines[i] # lines[j]

IsPrefix(a, b) == Len(a) <= Len(b) /\ SubSeq(b, 1, Len(a)) = a

RECURSIVE Flatten(_)
Flatten(ss) == IF ss = <<>> THEN <<>> ELSE Head(ss) \o Flatten(Tail(ss))

RECURSIVE SumWant(_)
SumWant(p) == IF p < 2 THEN 0 ELSE want[p] + SumWant(p - 1)

Left == mainpc \in {"done", "raised"}

\* a date cell that is present and contains the date separator
DateToken(row) == row[1].k = "str" /\ \E j \in 1..Len(row[1].s) : row[1].s[j] = "/"

(***************************************************************************)
(* C1 (Spec).  When workers call write_csv concurrently against a sink     *)
(* that does not exist yet, the sink never holds more than one header      *)
(* line, whatever the interleaving of the existence checks with the        *)
(* opens and writes.                                                       *)
(***************************************************************************)
C1_HeaderNeverDuplicated ==
    (~initSink.exists /\ ioFailed = {}) => HeaderCount(sink) <= 1

(***************************************************************************)
(* C2 (Spec).  When clean_dataframe fails for a page, the page is skipped  *)
(* with no records emitted, the task running the batch does not fail, and  *)
(* once the run is over the next page of the same batch has been read.     *)
(***************************************************************************)
C2_CleanFailureSkipsPage ==
    \A c \in 1..Len(chunks) : \A b \in 1..Len(chunks[c]) :
       \A i \in 1..Len(chunks[c][b]) :
          outcome[chunks[c][b][i]] = "clean_failed" =>
             /\ chunkState[c] # "failed"
             /\ (Left /\ i < Len(chunks[c][b])) => reads[chunks[c][b][i + 1]] > 0

(***************************************************************************)
(* C3 (SpecPipe).  process_entries never raises: applied to the entries    *)
(* of any cleaned table it returns the records.                            *)
(***************************************************************************)
C3_ProcessEntriesNeverFails == ppc # "process_raised"

(***************************************************************************)
(* C4 (Spec).  When a run with several workers is over and no page met an  *)
(* extraction, cleaning or write failure, the sink holds as many record    *)
(* lines as the pages read have entries, and no record line twice.         *)
(***************************************************************************)
C4_EveryRecordOnce ==
    (/\ Left
     /\ num_workers >= 2
     /\ \A p \in Pages : outcome[p] \notin {"extract_failed", "clean_failed", "write_failed"})
    => (RecordCount(sink) = SumWant(total_number) /\ NoLineTwice(sink))

\* the same with the pages whose processing raised excluded as well: what
\* the concurrent appends alone lose or duplicate
RecordsOnceWhenNoPageRaises ==
    (/\ Left
     /\ num_workers >= 2
     /\ \A p \in Pages : outcome[p] = "written")
    => (RecordCount(sink) = SumWant(total_number) /\ NoLineTwice(sink))

(***************************************************************************)
(* C5 (Spec).  process_pdf_to_csv is never left by an exception: whatever  *)
(* the pages' outcomes, the caller does not end in the raised state.       *)
(***************************************************************************)
C5_RunNeverAborts == mainpc # "raised"

(***************************************************************************)
(* C6 (Spec).  Once process_pdf_to_csv has left the pool block, by return  *)
(* or by exception, every task pool.map dispatched has finished and no     *)
(* worker is reading a page or writing to the sink.                        *)
(***************************************************************************)
C6_Barrier ==
    Left => /\ \A c \in 1..Len(chunkState) : chunkState[c] \in {"ok", "failed"}
            /\ \A w \in Workers : pc[w] = "terminated" /\ pending[w] = <<>>

C6_Witness ==
    /\ mainpc = "raised"
    /\ num_workers >= 2
    /\ Len(chunks) >= 2
    /\ \E p \in Pages : outcome[p] = "written"

(***************************************************************************)
(* C7 (SpecSeq).  After sequential write_csv calls against a sink that     *)
(* was absent or empty at first, a sink that holds any line starts with    *)
(* the header and holds no second header.                                  *)
(***************************************************************************)
C7_HeaderFirstAndOnce ==
    (initSink.lines = <<>> /\ ioFailed = {} /\ sink # <<>>)
    => (sink[1] = HeaderLine /\ HeaderCount(sink) = 1)

(***************************************************************************)
(* C8 (SpecSeq).  After any number of write_csv calls in sequence against  *)
(* a sink that did not exist, none of them meeting an I/O error, the sink  *)
(* is one header line followed by the records of all calls, in call order  *)
(* and in each call's record order.                                        *)
(***************************************************************************)
C8_FreshSinkHeaderThenRecords ==
    (~initSink.exists /\ ioFailed = {} /\ pc[1] = "w_ret")
    => sink = <<HeaderLine>> \o CsvLines(Flatten(calls))

C8_Witness ==
    /\ ~initSink.exists /\ ioFailed = {} /\ pc[1] = "w_ret"
    /\ Len(calls) >= 2
    /\ Len(calls[1]) = 2 /\ Len(calls[2]) = 2
    /\ Len(sink) = 5

(***************************************************************************)
(* C9 (SpecSeq).  A write_csv call against a sink that exists and is not   *)
(* empty never changes the lines that were there and adds no header; when  *)
(* the call has returned without an I/O error the sink is the previous     *)
(* content followed by the lines of the call's records.                    *)
(***************************************************************************)
C9_NonEmptySinkAppendOnly ==
    (Len(calls) >= 1 /\ sinkAtCall.lines # <<>>)
    => /\ IsPrefix(sinkAtCall.lines, sink)
       /\ HeaderCount(sink) = HeaderCount(sinkAtCall.lines)
       /\ (pc[1] = "w_ret" /\ Len(calls) \notin ioFailed)
             => sink = sinkAtCall.lines \o CsvLines(final_output[1])

C9_Witness ==
    /\ pc[1] = "w_ret" /\ ioFailed = {}
    /\ Len(calls) = 1 /\ Len(calls[1]) = 2
    /\ initSink.lines = <<OldLine>>
    /\ Len(sink) = 3

(***************************************************************************)
(* C10 (SpecPipe).  The number of entries extract_entries returns for a    *)
(* cleaned table is the number of its rows whose date cell is present and  *)
(* contains "/".                                                           *)
(***************************************************************************)
C10_EntryCountIsDateRowCount ==
    ppc \in {"extracted", "processed", "process_raised"}
    => Len(ents) = Cardinality({i \in 1..Len(cleaned.v) : DateToken(cleaned.v[i])})

C10_Witness ==
    /\ ppc = "extracted"
    /\ Len(cleaned.v) = 3
    /\ ~DateToken(cleaned.v[1])
    /\ Len(ents) = 2

(***************************************************************************)
(* C11 (SpecPart).  For a last page L >= 2 and a batch size B >= 1 the     *)
(* page ranges are not empty, all but the last hold exactly B pages and    *)
(* the last at most B, and read one after the other they are the pages     *)
(* 2, 3, ..., L: each once, ascending, none outside.                       *)
(***************************************************************************)
C11_RangesPartitionPages ==
    (mainpc = "map" /\ total_number >= 2) =>
        LET R == Flatten(chunks)
            all == Flatten(R)
        IN  /\ R # <<>>
            /\ \A k \in 1..Len(R) : Len(R[k]) >= 1 /\ Len(R[k]) <= batch_size
            /\ \A k \in 1..(Len(R) - 1) : Len(R[k]) = batch_size
            /\ Len(all) = total_number - 1
            /\ \A i \in 1..Len(all) : all[i] = i + 1

C11_Witness ==
    /\ mainpc = "map" /\ total_number = 12 /\ batch_size = 3
    /\ Len(Flatten(chunks)) = 4
    /\ Len(Flatten(chunks)[4]) = 2

(***************************************************************************)
(* C12 (SpecPart).  As claimed: [2, 2029] in batches of 100 gives 21 page  *)
(* ranges, the first 20 of 100 pages and the last of 29.                   *)
(***************************************************************************)
C12_LastBatchOf29 ==
    (mainpc = "map" /\ total_number = 2029 /\ batch_size = 100) =>
        LET R == Flatten(chunks)
        IN  /\ Len(R) = 21
            /\ \A k \in 1..20 : Len(R[k]) = 100
            /\ Len(R[21]) = 29

(***************************************************************************)
(* C12 amended (SpecPart).  [2, 2029] in batches of 100 gives 21 page      *)
(* ranges, the first 20 of 100 pages and the last of 28 (pages 2002 to     *)
(* 2029).                                                                  *)
(***************************************************************************)
C12_LastBatchOf28 ==
    (mainpc = "map" /\ total_number = 2029 /\ batch_size = 100) =>
        LET R == Flatten(chunks)
        IN  /\ Len(R) = 21
            /\ \A k \in 1..20 : Len(R[k]) = 100
            /\ Len(R[21]) = 28
            /\ R[21][1] = 2002 /\ R[21][28] = 2029

C12_Witness ==
    /\ mainpc = "map" /\ total_number = 2029 /\ batch_size = 100
    /\ Len(Flatten(chunks)) = 21

(***************************************************************************)
(* Pages of the same page range, and the page a record line comes from     *)
(* (the first character of its date is the page number)                    *)
(***************************************************************************)
Settled == {"extract_failed", "written", "write_failed"}
Raised == {"clean_failed", "process_failed"}
LineOfPage(l, p) == l # HeaderLine /\ l[1] # <<>> /\ l[1][1] = PageChar(p)

(***************************************************************************)
(* A page for which read_pdf_page returned None has no record line in the  *)
(* sink, its worker has moved past it without entering the pipeline or     *)
(* write_csv for it, and once the run is over the later pages of its range *)
(* have been read up to the first one whose own processing raised.         *)
(***************************************************************************)
ExtractFailureOnlySkips ==
    \A c \in 1..Len(chunks) : \A b \in 1..Len(chunks[c]) :
       \A i \in 1..Len(chunks[c][b]) :
          LET r == chunks[c][b]
          IN  outcome[r[i]] = "extract_failed" =>
                 /\ \A n \in 1..Len(sink) : ~LineOfPage(sink[n], r[i])
                 /\ \A w \in Workers : (task[w] = c /\ bidx[w] = b) => pidx[w] > i
                 /\ Left => \A j \in (i + 1)..Len(r) :
                               (\A k \in (i + 1)..(j - 1) : outcome[r[k]] \notin Raised)
                               => reads[r[j]] = 1

(***************************************************************************)
(* C13 (Spec).  A page for which read_pdf_page returned None has no record *)
(* line in the sink, and once the run is over every later page of its      *)
(* range has been read.                                                    *)
(***************************************************************************)
C13_ExtractFailureSkipsPage ==
    \A c \in 1..Len(chunks) : \A b \in 1..Len(chunks[c]) :
       \A i \in 1..Len(chunks[c][b]) :
          LET r == chunks[c][b]
          IN  outcome[r[i]] = "extract_failed" =>
                 /\ \A n \in 1..Len(sink) : ~LineOfPage(sink[n], r[i])
                 /\ Left => \A j \in (i + 1)..Len(r) : reads[r[j]] = 1

(***************************************************************************)
(* C14 (Spec).  For pages p < q of one page range: q is read only after    *)
(* write_csv has returned for p (or p was skipped), and in the sink every  *)
(* record line of p stands before every record line of q.                  *)
(***************************************************************************)
C14_PagesInOrder ==
    \A c \in 1..Len(chunks) : \A b \in 1..Len(chunks[c]) :
       \A i, j \in 1..Len(chunks[c][b]) :
          LET p == chunks[c][b][i]
              q == chunks[c][b][j]
          IN  p < q =>
                 /\ reads[q] > 0 => outcome[p] \in Settled
                 /\ \A m, n \in 1..Len(sink) :
                       (LineOfPage(sink[m], p) /\ LineOfPage(sink[n], q)) => m < n

C14_Witness ==
    /\ Left
    /\ num_workers = 2
    /\ \E c \in 1..Len(chunks) : \E b \in 1..Len(chunks[c]) :
          /\ Len(chunks[c][b]) = 2
          /\ outcome[chunks[c][b][1]] = "written"
          /\ outcome[chunks[c][b][2]] = "written"
          /\ \E m, n \in 1..Len(sink) :
                /\ LineOfPage(sink[m], chunks[c][b][1])
                /\ LineOfPage(sink[n], chunks[c][b][2])

(***************************************************************************)
(* C19 (Spec).  A page whose write_csv met an I/O error does not fail its  *)
(* task: once the run is over the next page of its range has been read,    *)
(* and a run whose pages were all written, skipped or hit by I/O errors    *)
(* ends by normal return.                                                  *)
(***************************************************************************)
C19_WriteFailureNotFatal ==
    \A c \in 1..Len(chunks) : \A b \in 1..Len(chunks[c]) :
       \A i \in 1..Len(chunks[c][b]) :
          LET r == chunks[c][b]
          IN  outcome[r[i]] = "write_failed" =>
                 /\ (Left /\ i < Len(r)) => reads[r[i + 1]] = 1
                 /\ (Left /\ \A p \in Pages : outcome[p] \in Settled) => mainpc = "done"

C19_Witness ==
    /\ mainpc = "done"
    /\ \E c \in 1..Len(chunks) : \E b \in 1..Len(chunks[c]) :
          /\ Len(chunks[c][b]) = 2
          /\ outcome[chunks[c][b][1]] = "write_failed"
          /\ outcome[chunks[c][b][2]] = "written"

(***************************************************************************)
(* C20 (Spec).  No page range holds a page outside 2..total_number (so     *)
(* never page 1), no page is read twice, and when the run is over and no   *)
(* page's cleaning or normalizing raised, every page of 2..total_number    *)
(* has been read exactly once.                                             *)
(***************************************************************************)
C20_EveryPageReadOnce ==
    /\ \A c \in 1..Len(chunks) : \A b \in 1..Len(chunks[c]) :
          \A i \in 1..Len(chunks[c][b]) :
             chunks[c][b][i] >= 2 /\ chunks[c][b][i] <= total_number
    /\ \A p \in Pages : reads[p] <= 1
    /\ (Left /\ \A p \in Pages : outcome[p] \notin Raised)
          => \A p \in Pages : reads[p] = 1

C20_Witness ==
    /\ Left
    /\ num_workers = 2
    /\ total_number = 3
    /\ batch_size = 1
    /\ \A p \in Pages : reads[p] = 1 /\ outcome[p] \in Settled

(***************************************************************************)
(* What the records are stated against: the digit characters of a text,    *)
(* the present detail cells of the first n rows of an entry joined by      *)
(* single spaces, and a text being another with only leading and trailing  *)
(* whitespace taken off                                                    *)
(***************************************************************************)
IsDigit(ch) == ch \in Digits

RECURSIVE Joined(_, _)
Joined(e, n) ==
    IF n = 0 THEN <<>>
    ELSE IF e[n][5].k # "str" THEN Joined(e, n - 1)
    ELSE IF \A k \in 1..(n - 1) : e[k][5].k # "str" THEN e[n][5].s
    ELSE Joined(e, n - 1) \o <<" ">> \o e[n][5].s

IsTrimOf(c, J) ==
    /\ c = <<>> \/ (c[1] # " " /\ c[Len(c)] # " ")
    /\ \E a \in 0..Len(J) : \E b \in 0..(Len(J) - a) :
          /\ c = SubSeq(J, a + 1, Len(J) - b)
          /\ \A k \in 1..a : J[k] = " "
          /\ \A k \in (Len(J) - b + 1)..Len(J) : J[k] = " "

(***************************************************************************)
(* C15 (SpecPipe).  When process_entries returns, it returns one record    *)
(* per entry, in order, whose Date is the first row's date cell, whose     *)
(* Amount is the second row's credit cell if the entry has at least 2 rows *)
(* and None otherwise, and whose TransactionId is the digit characters of  *)
(* the third row's date cell if the entry has at least 3 rows and None     *)
(* otherwise.                                                              *)
(***************************************************************************)
C15_RecordFields ==
    ppc = "processed" =>
       /\ Len(recs.v) = Len(ents)
       /\ \A i \in 1..Len(ents) :
             /\ recs.v[i].Date = ents[i][1][1]
             /\ recs.v[i].Amount = (IF Len(ents[i]) >= 2 THEN ents[i][2][3] ELSE None)
             /\ recs.v[i].TransactionId =
                   (IF Len(ents[i]) >= 3 THEN Str(SelectSeq(ents[i][3][1].s, IsDigit))
                    ELSE None)

C15_Witness ==
    /\ ppc = "processed"
    /\ \E i \in 1..Len(ents) :
          /\ Len(ents[i]) = 3
          /\ ents[i][1][1] = Date1
          /\ ents[i][2][3] = Str(<<"5", "0">>)
          /\ ents[i][3][1] = Str(<<"A", "9", "9", "Z">>)
          /\ recs.v[i].Date = Date1
          /\ recs.v[i].TransactionId = Str(<<"9", "9">>)
          /\ recs.v[i].Amount = Str(<<"5", "0">>)

(***************************************************************************)
(* C16 (SpecPipe).  When process_entries returns, each record's Content is *)
(* the present detail cells of all rows of its entry, in row order, joined *)
(* by single spaces (absent cells adding nothing, no separator either),    *)
(* with leading and trailing whitespace taken off.                         *)
(***************************************************************************)
C16_ContentJoinsAllDetails ==
    ppc = "processed" =>
       \A i \in 1..Len(ents) :
          /\ recs.v[i].Content.k = "str"
          /\ IsTrimOf(recs.v[i].Content.s, Joined(ents[i], Len(ents[i])))

C16_Witness ==
    /\ ppc = "processed"
    /\ \E i \in 1..Len(ents) :
          /\ Len(ents[i]) = 4
          /\ ents[i][2][5] = NaN
          /\ ents[i][4][5] = Str(<<"y", " ">>)
          /\ recs.v[i].Content = Str(<<"D", "o", " ", " ", "x", " ", "y">>)

(***************************************************************************)
(* C17 (SpecPipe).  On a raw table of five columns clean_dataframe raises  *)
(* exactly when the table has fewer than 4 rows; for n >= 4 rows it        *)
(* returns the n - 4 rows from the fifth on, in their order.               *)
(***************************************************************************)
C17_CleanDropsFourRows ==
    ppc # "raw" =>
       /\ cleaned.st = "raise" <=> Len(raw) < 4
       /\ Len(raw) >= 4 =>
             /\ Len(cleaned.v) = Len(raw) - 4
             /\ \A i \in 1..Len(cleaned.v) : cleaned.v[i] = raw[i + 4]

C17_Witness ==
    /\ ppc = "cleaned"
    /\ Len(raw) = 6
    /\ cleaned.v = <<raw[5], raw[6]>>
    /\ raw[5] # raw[6]

(***************************************************************************)
(* C18 (SpecPipe).  The entries extract_entries returns, one after the     *)
(* other, are the cleaned table's rows from the first row with a date      *)
(* token to the end (nothing when there is no such row); every entry       *)
(* starts with a row that has a date token and holds no other such row.    *)
(***************************************************************************)
C18_EntriesAreTheRowsFromFirstDate ==
    ppc \in {"extracted", "processed", "process_raised"} =>
       LET t == cleaned.v
           F == {i \in 1..Len(t) : DateToken(t[i])}
       IN  /\ Flatten(ents) = (IF F = {} THEN <<>>
                               ELSE SubSeq(t, CHOOSE i \in F : \A j \in F : i <= j, Len(t)))
           /\ \A e \in 1..Len(ents) :
                 /\ Len(ents[e]) >= 1
                 /\ DateToken(ents[e][1])
                 /\ \A k \in 2..Len(ents[e]) : ~DateToken(ents[e][k])

C18_Witness ==
    /\ ppc = "extracted"
    /\ Len(cleaned.v) = 4
    /\ ~DateToken(cleaned.v[1])
    /\ Len(ents) = 2
    /\ Len(ents[1]) = 2
    /\ ents[1] = SubSeq(cleaned.v, 2, 3)

====
